---- MODULE Spec2Model ----
(***************************************************************************)
(* Model of multirep (src/lib.rs): multi_replace and exchange.             *)
(*                                                                         *)
(* Strings are sequences of characters; offsets are 0-based as in the      *)
(* Rust code (s[i..j] is SubSeq(s, i+1, j)).  All characters are one byte  *)
(* wide, so every offset is a character boundary.                          *)
(*                                                                         *)
(* One call of multi_replace is run step by step: the resolver loop        *)
(* (lines 31-42) one match at a time, then the render loop (lines 47-55)   *)
(* one occurrence at a time, then the tail copy (lines 57-61).  A caller   *)
(* may issue a second call whose arguments depend on the first, so that    *)
(* relations between two calls can be stated.  Spec runs direct calls of   *)
(* multi_replace, SpecSymmetry runs exchange(s, a, b) then                 *)
(* exchange(s, b, a), SpecRoundTrip runs exchange on its own result.       *)
(***************************************************************************)
EXTENDS Integers, Sequences, FiniteSets, TLC

MaxSrcLen == 3     \* longest source of a direct multi_replace call
MaxPatLen == 2     \* longest pattern of a direct multi_replace call
MaxPats == 2       \* longest pattern list of a direct multi_replace call
MaxExSrcLen == 4   \* longest source given to exchange
MaxExPatLen == 3   \* longest pattern given to exchange

Alphabet == {"a", "b"}
\* replacement text of direct calls; it is itself a pattern
Repls == {<<"b">>}
\* what an out-of-range get_unchecked may hand to push_str
UBSpans == {<<>>, <<"?">>}

VARIABLES
  second,   \* what the caller does after the first call returns
  call,     \* 1 or 2
  first,    \* arguments and outcome of the first call, once a second is issued
  a, b,     \* arguments of exchange (empty for a direct call)
  src,      \* s
  pats,     \* pats
  pi,       \* position of the outer loop (line 31) in pats
  mi,       \* position of the inner loop (line 32) in match_indices
  indices,  \* the BTreeMap: start offset -> <<len, new>>
  rest,     \* keys the render loop has not consumed yet
  result,   \* the String being built
  end,      \* the cursor
  st,       \* "ok", or "ub" once an invalid range was handed to get_unchecked
  pc

vars == <<second, call, first, a, b, src, pats, pi, mi, indices, rest,
          result, end, st, pc>>

StrsUpTo(A, n) == UNION {[1..k -> A] : k \in 0..n}

Max(S) == CHOOSE x \in S : \A y \in S : y <= x
Min(S) == CHOOSE x \in S : \A y \in S : x <= y

\* s[from..to]
Slice(s, from, to) == SubSeq(s, from + 1, to)

\* str::match_indices: left-to-right, non-overlapping; the empty pattern
\* matches at every boundary 0..len(s).
RECURSIVE ScanFrom(_, _, _)
ScanFrom(s, pat, i) ==
  IF i + Len(pat) > Len(s) THEN <<>>
  ELSE IF Slice(s, i, i + Len(pat)) = pat
       THEN <<i>> \o ScanFrom(s, pat, i + Len(pat))
       ELSE ScanFrom(s, pat, i + 1)

MatchIndices(s, pat) ==
  IF Len(pat) = 0 THEN [k \in 1..(Len(s) + 1) |-> k - 1]
  ELSE ScanFrom(s, pat, 0)

\* indices.range(..=i).next_back().map(|(pos,(len,_))| pos + len <= i).unwrap_or(true)
Keeps(m, i) ==
  LET below == {k \in DOMAIN m : k <= i}
  IN  below = {} \/ (LET pos == Max(below) IN pos + m[pos][1] <= i)

InsertLenOfNew(m, i, p, new) ==
  [k \in (DOMAIN m) \cup {i} |-> IF k = i THEN <<Len(new), new>> ELSE m[k]]

\* indices.insert(i, (p.len(), *new))
Insert(m, i, p, new) ==
  [k \in (DOMAIN m) \cup {i} |-> IF k = i THEN <<Len(p), new>> ELSE m[k]]

RemainderDropped(s, e) == <<>>

\* if end < s.len() { s[end..] }
Remainder(s, e) == IF e < Len(s) THEN Slice(s, e, Len(s)) ELSE <<>>

ExchangeTypo(x, y) ==
  IF Len(x) > Len(y) THEN <<<<x, y>>, <<y, y>>>> ELSE <<<<y, x>>, <<x, x>>>>

\* the pattern list exchange builds: the longer pattern first
ExchangePats(x, y) ==
  IF Len(x) > Len(y) THEN <<<<x, y>>, <<y, x>>>> ELSE <<<<y, x>>, <<x, y>>>>

RemoveEmpty(ps) == SelectSeq(ps, LAMBDA e : Len(e[1]) > 0)
HasEmpty(ps) == \E k \in 1..Len(ps) : Len(ps[k][1]) = 0

NoCall == [src |-> <<>>, a |-> <<>>, b |-> <<>>, pats |-> <<>>,
           indices |-> <<>>, result |-> <<>>, st |-> "none"]

PatPairs == StrsUpTo(Alphabet, MaxPatLen) \X Repls
PatLists == UNION {[1..k -> PatPairs] : k \in 0..MaxPats}

\* let mut indices = BTreeMap::new(); and the loop positions
Locals ==
  /\ pi = 1 /\ mi = 1 /\ indices = <<>> /\ rest = {}
  /\ result = <<>> /\ end = 0 /\ st = "ok"

InitMulti ==
  /\ src \in StrsUpTo(Alphabet, MaxSrcLen)
  /\ pats \in PatLists
  /\ second = IF HasEmpty(pats) THEN "noempty" ELSE "none"
  /\ a = <<>> /\ b = <<>>
  /\ pc = "resolve"

InitExchange ==
  /\ src \in StrsUpTo(Alphabet, MaxExSrcLen)
  /\ a \in StrsUpTo(Alphabet, MaxExPatLen)
  /\ b \in StrsUpTo(Alphabet, MaxExPatLen)
  /\ pats = <<>>
  /\ pc = "exchange"

Init ==
  /\ call = 1 /\ first = NoCall
  /\ Locals
  /\ InitMulti

InitSymmetry ==
  /\ call = 1 /\ first = NoCall
  /\ Locals
  /\ InitExchange
  /\ second = "swapped"

InitRoundTrip ==
  /\ call = 1 /\ first = NoCall
  /\ Locals
  /\ InitExchange
  /\ second = "again"

\* exchange, lines 71-80: build the list and call multi_replace
Exchange ==
  /\ pc = "exchange"
  /\ pats' = ExchangePats(a, b)
  /\ pc' = "resolve"
  /\ UNCHANGED <<second, call, first, a, b, src, pi, mi, indices, rest,
                 result, end, st>>

\* one iteration of the inner loop, lines 32-41
ResolveMatch ==
  /\ pc = "resolve"
  /\ pi <= Len(pats)
  /\ LET pat == pats[pi][1]
         new == pats[pi][2]
         ms  == MatchIndices(src, pat)
     IN  /\ mi <= Len(ms)
         /\ indices' = IF Keeps(indices, ms[mi])
                       THEN Insert(indices, ms[mi], pat, new)
                       ELSE indices
         /\ mi' = mi + 1
  /\ UNCHANGED <<second, call, first, a, b, src, pats, pi, rest, result,
                 end, st, pc>>

\* the inner iterator is exhausted: next (pat, new) of the outer loop
NextPattern ==
  /\ pc = "resolve"
  /\ pi <= Len(pats)
  /\ mi > Len(MatchIndices(src, pats[pi][1]))
  /\ pi' = pi + 1
  /\ mi' = 1
  /\ UNCHANGED <<second, call, first, a, b, src, pats, indices, rest,
                 result, end, st, pc>>

\* lines 44-47: the render loop starts consuming the map
StartRender ==
  /\ pc = "resolve"
  /\ pi > Len(pats)
  /\ result' = <<>>
  /\ end' = 0
  /\ rest' = DOMAIN indices
  /\ pc' = "render"
  /\ UNCHANGED <<second, call, first, a, b, src, pats, pi, mi, indices, st>>

\* one iteration of the render loop, lines 47-55, with a valid range
RenderStep ==
  /\ pc = "render"
  /\ rest # {}
  /\ LET pos == Min(rest)
     IN  /\ end <= pos
         /\ result' = result \o Slice(src, end, pos) \o indices[pos][2]
         /\ end' = pos + indices[pos][1]
         /\ rest' = rest \ {pos}
  /\ UNCHANGED <<second, call, first, a, b, src, pats, pi, mi, indices,
                 st, pc>>

\* line 52 with end > pos: get_unchecked(end..pos) is undefined behaviour.
\* The build either goes on with some span, or stops.
RenderUndefined ==
  /\ pc = "render"
  /\ rest # {}
  /\ LET pos == Min(rest)
     IN  /\ end > pos
         /\ st' = "ub"
         /\ \/ /\ \E g \in UBSpans : result' = result \o g \o indices[pos][2]
               /\ end' = pos + indices[pos][1]
               /\ rest' = rest \ {pos}
               /\ pc' = pc
            \/ /\ pc' = "abort"
               /\ UNCHANGED <<result, end, rest>>
  /\ UNCHANGED <<second, call, first, a, b, src, pats, pi, mi, indices>>

\* lines 57-63
RenderTail ==
  /\ pc = "render"
  /\ rest = {}
  /\ result' = result \o Remainder(src, end)
  /\ pc' = "return"
  /\ UNCHANGED <<second, call, first, a, b, src, pats, pi, mi, indices,
                 rest, end, st>>

\* the result goes back to the caller, who is finished
Return ==
  /\ pc = "return"
  /\ second = "none" \/ call = 2
  /\ pc' = "done"
  /\ UNCHANGED <<second, call, first, a, b, src, pats, pi, mi, indices,
                 rest, result, end, st>>

\* what every second call starts from: the first call's outcome is kept,
\* the locals of multi_replace are fresh
Again ==
  /\ pc = "return"
  /\ call = 1
  /\ first' = [src |-> src, a |-> a, b |-> b, pats |-> pats,
               indices |-> indices, result |-> result, st |-> st]
  /\ call' = 2
  /\ pi' = 1 /\ mi' = 1 /\ indices' = <<>> /\ rest' = {}
  /\ result' = <<>> /\ end' = 0 /\ st' = "ok"
  /\ UNCHANGED second

\* the caller goes on with multi_replace(s, pats without the "" entries)
CallWithoutEmpty ==
  /\ second = "noempty"
  /\ Again
  /\ pats' = RemoveEmpty(pats)
  /\ pc' = "resolve"
  /\ UNCHANGED <<a, b, src>>

\* the caller goes on with exchange(s, b, a)
CallSwapped ==
  /\ second = "swapped"
  /\ Again
  /\ a' = b /\ b' = a
  /\ pats' = <<>>
  /\ pc' = "exchange"
  /\ UNCHANGED src

\* the caller goes on with exchange(exchange(s, a, b), a, b)
CallOnResult ==
  /\ second = "again"
  /\ Again
  /\ src' = result
  /\ pats' = <<>>
  /\ pc' = "exchange"
  /\ UNCHANGED <<a, b>>

Next ==
  \/ ResolveMatch
  \/ NextPattern
  \/ StartRender
  \/ RenderStep
  \/ RenderUndefined
  \/ RenderTail
  \/ Return
  \/ CallWithoutEmpty

NextSymmetry ==
  \/ Exchange
  \/ ResolveMatch
  \/ NextPattern
  \/ StartRender
  \/ RenderStep
  \/ RenderUndefined
  \/ RenderTail
  \/ Return
  \/ CallSwapped

NextRoundTrip ==
  \/ Exchange
  \/ ResolveMatch
  \/ NextPattern
  \/ StartRender
  \/ RenderStep
  \/ RenderUndefined
  \/ RenderTail
  \/ Return
  \/ CallOnResult

Spec == Init /\ [][Next]_vars
SpecSymmetry == InitSymmetry /\ [][NextSymmetry]_vars
SpecRoundTrip == InitRoundTrip /\ [][NextRoundTrip]_vars

----
\* helpers for the properties

\* all start offsets at which p occurs in s, overlapping ones included
OccAll(p, s) == {i \in 0..Len(s) : i + Len(p) <= Len(s) /\ Slice(s, i, i + Len(p)) = p}
Occurs(p, s) == OccAll(p, s) # {}
Range(f) == {f[k] : k \in DOMAIN f}
\* spans [i, i+li) and [j, j+lj) share a position
Intersect(i, li, j, lj) ==
  (IF i > j THEN i ELSE j) < (IF i + li < j + lj THEN i + li ELSE j + lj)
Resolving == pc = "resolve" \/ pc = "render" \/ pc = "return" \/ pc = "done"

\* where the render loop puts the replacement of the occurrence kept at k:
\* k shifted by the length changes of the occurrences before it
RECURSIVE Shift(_, _)
Shift(m, K) ==
  IF K = {} THEN 0
  ELSE LET j == Min(K) IN Len(m[j][2]) - m[j][1] + Shift(m, K \ {j})
OutPos(m, k) == k + Shift(m, {j \in DOMAIN m : j < k})
\* offsets of the output at which text txt was written as a replacement
Written(m, txt) == {OutPos(m, k) : k \in {j \in DOMAIN m : m[j][2] = txt}}

NoOverlapIn(x, y, s) ==
  \A i \in OccAll(x, s) : \A j \in OccAll(y, s) : ~Intersect(i, Len(x), j, Len(y))

----
\* C1: the occurrence map is pairwise non-overlapping after every insertion
\* and when resolution ends: for kept o1, o2 with o1.start < o2.start,
\* o1.start + o1.length <= o2.start.
C1_NonOverlapping ==
  \A i \in DOMAIN indices : \A j \in DOMAIN indices :
    i < j => i + indices[i][1] <= j

\* C2: at every iteration of the render loop end <= pos and
\* pos + len <= len(s), the cursor only increases, and no invalid range is
\* ever handed to get_unchecked.
C2_RenderRangesValid ==
  /\ [](pc = "render" /\ rest # {} =>
          /\ end <= Min(rest)
          /\ Min(rest) + indices[Min(rest)][1] <= Len(src))
  /\ [](pc \in {"render", "return", "done"} => end <= Len(src))
  /\ [](st = "ok" /\ pc # "abort")
  /\ [][pc = "render" /\ pc' = "render" => end' >= end]_vars

\* C3: during resolution an occurrence kept at a start offset is never
\* replaced by a match of a later pattern: its (length, replacement) stays
\* unchanged until resolution ends.
C3_KeptNeverReplaced ==
  [][pc = "resolve" /\ pc' \in {"resolve", "render"} =>
       \A i \in DOMAIN indices :
         i \in DOMAIN indices' /\ indices'[i] = indices[i]]_vars

\* C4: entries with the empty pattern are no-ops: multi_replace(s, pats)
\* equals multi_replace(s, pats with the empty-pattern entries removed).
C4_EmptyPatternNoOp ==
  pc = "done" /\ second = "noempty" => result = first.result

\* C5: every kept occurrence (i, len, new) comes from a pair (pat, new) of
\* the list with s[i..i+len] = pat in the source: replacement text is never
\* matched.
C5_KeptComesFromSource ==
  Resolving =>
    \A i \in DOMAIN indices :
      \E k \in 1..Len(pats) :
        /\ indices[i] = <<Len(pats[k][1]), pats[k][2]>>
        /\ i + indices[i][1] <= Len(src)
        /\ Slice(src, i, i + indices[i][1]) = pats[k][1]

\* a finished direct call that kept an occurrence whose replacement text is
\* itself a pattern of the list, and whose output holds that text
C5_Witness ==
  /\ pc = "done" /\ st = "ok"
  /\ \E i \in DOMAIN indices : \E k \in 1..Len(pats) :
       /\ pats[k][1] = indices[i][2]
       /\ Occurs(indices[i][2], result)
       /\ Len(src) > Len(indices[i][2])

\* C6: if no pattern of the list occurs in s, the result equals s; in
\* particular with the empty list.
C6_NoMatchPassthrough ==
  (/\ pc \in {"return", "done"}
   /\ \A k \in 1..Len(pats) : ~Occurs(pats[k][1], src))
  => result = src /\ st = "ok"

\* a finished direct call with a non-empty source and a non-empty list none
\* of whose patterns occurs
C6_Witness ==
  /\ pc = "done"
  /\ Len(src) > 0 /\ Len(pats) > 0
  /\ \A k \in 1..Len(pats) : ~Occurs(pats[k][1], src)
  /\ result = src

\* C7: exchange(s, a, b) equals exchange(s, b, a) for all s, a, b: both
\* calls return, and return the same string.
C7_ExchangeSymmetric ==
  /\ second = "swapped" => pc # "abort"
  /\ pc = "done" /\ second = "swapped" => result = first.result

\* C8: when one pattern is a proper substring of the other, every scanned
\* occurrence of the longer one is replaced by the shorter one, no
\* occurrence of the shorter one that overlaps an occurrence of the longer
\* one is replaced, and the output is not garbled.
C8_SubstringSafe ==
  (/\ pc \in {"render", "return", "done", "abort"}
   /\ Len(a) # Len(b))
  => LET long  == IF Len(a) > Len(b) THEN a ELSE b
         short == IF Len(a) > Len(b) THEN b ELSE a
         ls    == Range(MatchIndices(src, long))
     IN  Occurs(short, long) =>
           /\ \A i \in ls :
                i \in DOMAIN indices /\ indices[i] = <<Len(long), short>>
           /\ \A j \in OccAll(short, src) :
                (\E i \in ls : Intersect(i, Len(long), j, Len(short)))
                => ~(j \in DOMAIN indices /\ indices[j] = <<Len(short), long>>)
           /\ st = "ok" /\ pc # "abort"

\* a and b are non-empty, occur the same number of times in s (counted
\* with or without overlapping occurrences), and no occurrence of a
\* overlaps an occurrence of b
RoundTripPre(s, x, y) ==
  /\ Len(x) > 0 /\ Len(y) > 0
  /\ Cardinality(OccAll(x, s)) = Cardinality(OccAll(y, s))
  /\ Len(MatchIndices(s, x)) = Len(MatchIndices(s, y))
  /\ NoOverlapIn(x, y, s)

\* C9 (as stated): exchange(exchange(s, a, b), a, b) = s whenever a and b
\* are non-empty, occur the same number of times in s and no occurrence of
\* a overlaps an occurrence of b in s.
C9_RoundTripOriginal ==
  (pc = "done" /\ second = "again" /\ RoundTripPre(first.src, a, b))
  => result = first.src

\* the weaker precondition of the amended claim: equal counts under either
\* way of counting, and every occurrence of a or b in t = exchange(s, a, b)
\* is one the swap wrote
RoundTripPreAmended ==
  /\ Len(a) > 0 /\ Len(b) > 0
  /\ \/ Cardinality(OccAll(a, first.src)) = Cardinality(OccAll(b, first.src))
     \/ Len(MatchIndices(first.src, a)) = Len(MatchIndices(first.src, b))
  /\ NoOverlapIn(a, b, first.src)
  /\ OccAll(a, src) \subseteq Written(first.indices, a)
  /\ OccAll(b, src) \subseteq Written(first.indices, b)

\* C9 (amended): exchange(exchange(s, a, b), a, b) = s whenever a and b are
\* non-empty, occur the same number of times in s, no occurrence of a
\* overlaps an occurrence of b in s, and exchange(s, a, b) contains no
\* occurrence of a or b other than those the swap wrote.
C9_RoundTripAmended ==
  (pc = "done" /\ second = "again" /\ RoundTripPreAmended)
  => result = first.src /\ st = "ok" /\ first.st = "ok"

\* a round trip that swapped patterns of different lengths, both occurring,
\* and came back to s through a different string
C9_Witness ==
  /\ pc = "done" /\ second = "again" /\ RoundTripPreAmended
  /\ Len(a) # Len(b)
  /\ OccAll(a, first.src) # {}
  /\ src # first.src
  /\ result = first.src

\* C10: a candidate found by the scan whose span intersects no occurrence
\* already kept is recorded at its offset with its pattern's length and
\* replacement; a candidate is rejected only when it overlaps a kept one.
C10_KeepsAllCompatible ==
  [][(pc = "resolve" /\ mi' = mi + 1) =>
       LET pat == pats[pi][1]
           i   == MatchIndices(src, pat)[mi]
           hit == \E k \in DOMAIN indices :
                    Intersect(k, indices[k][1], i, Len(pat))
       IN  /\ ~hit => /\ i \in DOMAIN indices'
                      /\ indices'[i] = <<Len(pat), pats[pi][2]>>
           /\ indices' = indices => hit \/ (i \in DOMAIN indices /\
                                            indices[i] = <<Len(pat), pats[pi][2]>>)]_vars

====
